---------------------------- MODULE Spec2Model ----------------------------
(***************************************************************************)
(* A model of martini (src/index.js): the Martini grid constructor, Tile   *)
(* construction with its bottom-up error sweep (update), and the two-pass  *)
(* mesh extraction (getMesh).                                              *)
(*                                                                         *)
(* Numbers.  Terrain samples are the even integers 0, 2, .., 2*MaxHeight,  *)
(* so that (terrain[a] + terrain[b]) / 2 is an integer and every value     *)
(* the Float32Array `errors` holds is an integer it represents exactly.    *)
(* maxError and maxLength are integers, maxLength possibly absent.         *)
(***************************************************************************)
EXTENDS Integers, Sequences, FiniteSets, TLC

\* ---------------------------------------------------------------- bounds
MaxGridSize == 5
MaxHeight == 2
MaxError == 3
MaxLength == 2
MaxStack == 6

\* An optional argument: Null when it was not passed (maxLength = null), and
\* otherwise the one-element tuple of its value.
Null == <<>>

Given(v) == <<v>>

Abs(x) == IF x < 0 THEN -x ELSE x

Max(x, y) == IF x >= y THEN x ELSE y

\* ------------------------------------------------ Martini constructor
\* The & operator of JavaScript on two's complement words.  Halving rounds
\* down, so -1 is the word of all ones; for operands that fit 32 bits the
\* result is the one the 32-bit operator gives.
RECURSIVE BitAnd(_, _)
BitAnd(x, y) ==
    IF x = 0 \/ y = 0 THEN 0
    ELSE IF x = -1 THEN y
    ELSE IF y = -1 THEN x
    ELSE (x % 2) * (y % 2) + 2 * BitAnd(x \div 2, y \div 2)

\* if (tileSize & (tileSize - 1)) throw
GridSizeRejected(size) == BitAnd(size - 1, size - 2) # 0

NumTriangles(size) == (size - 1) * (size - 1) * 2 - 2

NumParentTriangles(size) == NumTriangles(size) - (size - 1) * (size - 1)

\* The while loop of the constructor: id has just been read for its low bit.
RECURSIVE Descend(_, _, _, _, _, _, _)
Descend(id, ax, ay, bx, by, cx, cy) ==
    LET id2 == id \div 2
        mx == (ax + bx) \div 2
        my == (ay + by) \div 2
    IN  IF id2 > 1
        THEN IF id2 % 2 = 1
             THEN Descend(id2, cx, cy, ax, ay, mx, my)
             ELSE Descend(id2, bx, by, cx, cy, mx, my)
        ELSE <<ax, ay, bx, by>>

\* The body of the for loop: the four coordinates stored for triangle i.
TriangleCoords(i, tileSize) ==
    LET id == i + 2
    IN  IF id % 2 = 1
        THEN Descend(id, 0, 0, tileSize, tileSize, tileSize, 0)
        ELSE Descend(id, tileSize, tileSize, 0, 0, 0, tileSize)

\* this.coords, a flat table indexed from 0.
CoordsTable(size) ==
    [k \in 0..(4 * NumTriangles(size) - 1) |->
        TriangleCoords(k \div 4, size - 1)[(k % 4) + 1]]

\* new Uint32Array(n): a zeroed typed array, indexed from 0.
ZeroArray(n) == [k \in 0..(n - 1) |-> 0]

\* arr.length
Length(arr) == Cardinality(DOMAIN arr)

\* -------------------------------------------------------------- state
VARIABLES
    status,              \* how far construction got, and what the last call did
    error,               \* the error the last operation threw, if it threw
    gridSize,            \* Martini.gridSize
    numTriangles,        \* Martini.numTriangles
    numParentTriangles,  \* Martini.numParentTriangles
    coords,              \* Martini.coords
    indices,             \* Martini.indices, the scratch buffer every Tile shares
    terrain,             \* Tile.terrain
    errors,              \* Tile.errors
    call,                \* the arguments of the last getMesh call, and whether the
                         \* scratch buffer held an earlier call's indices when it began
    mesh                 \* what the last getMesh call returned, and its locals

vars == <<status, error, gridSize, numTriangles, numParentTriangles, coords,
          indices, terrain, errors, call, mesh>>

NoError == [name |-> "none", value |-> 0]

NoCall == [maxError |-> 0, maxLength |-> Null, dirty |-> FALSE]

NoMesh == [vertices |-> <<>>, triangles |-> <<>>, numVertices |-> 0,
           numTriangles |-> 0, triIndex |-> 0, depth |-> 0, emitted |-> <<>>]

\* ------------------------------------------------------- Tile.update
\* UpdateStep without the accumulation of the children's errors.
UpdateStepNoChildren(i, terr, errs) ==
    LET ax == coords[i * 4 + 0]
        ay == coords[i * 4 + 1]
        bx == coords[i * 4 + 2]
        by == coords[i * 4 + 3]
        middleIndex == ((ay + by) \div 2) * gridSize + (ax + bx) \div 2
        middleError ==
            Abs((terr[ay * gridSize + ax] + terr[by * gridSize + bx]) \div 2
                - terr[middleIndex])
    IN  [errs EXCEPT ![middleIndex] = Max(errs[middleIndex], middleError)]

\* UpdateStep storing the error at the end a of the hypotenuse, not its middle.
UpdateStepAtA(i, terr, errs) ==
    LET ax == coords[i * 4 + 0]
        ay == coords[i * 4 + 1]
        bx == coords[i * 4 + 2]
        by == coords[i * 4 + 3]
        middleIndex == ((ay + by) \div 2) * gridSize + (ax + bx) \div 2
        middleError ==
            Abs((terr[ay * gridSize + ax] + terr[by * gridSize + bx]) \div 2
                - terr[middleIndex])
    IN  [errs EXCEPT ![ay * gridSize + ax] = Max(errs[ay * gridSize + ax], middleError)]

\* One iteration of the sweep: triangle i of the coords table.
UpdateStep(i, terr, errs) ==
    LET k == i * 4
        ax == coords[k + 0]
        ay == coords[k + 1]
        bx == coords[k + 2]
        by == coords[k + 3]
        mx == (ax + bx) \div 2
        my == (ay + by) \div 2
        cx == mx + my - ay
        cy == my + ax - mx
        interpolatedHeight == (terr[ay * gridSize + ax] + terr[by * gridSize + bx]) \div 2
        middleIndex == my * gridSize + mx
        middleError == Abs(interpolatedHeight - terr[middleIndex])
        own == Max(errs[middleIndex], middleError)
        leftChildIndex == ((ay + cy) \div 2) * gridSize + ((ax + cx) \div 2)
        rightChildIndex == ((by + cy) \div 2) * gridSize + ((bx + cx) \div 2)
    IN  IF i < numParentTriangles
        THEN [errs EXCEPT ![middleIndex] =
                 Max(own, Max(errs[leftChildIndex], errs[rightChildIndex]))]
        ELSE [errs EXCEPT ![middleIndex] = own]

\* UpdateLoop sweeping upwards, from the roots to the smallest triangles.
RECURSIVE UpdateLoopAscending(_, _, _, _)
UpdateLoopAscending(i, stop, terr, errs) ==
    IF stop > i THEN errs
    ELSE UpdateLoopAscending(i, stop + 1, terr, UpdateStep(stop, terr, errs))

\* The iterations i, i - 1, .., stop of the sweep, applied to errs.
RECURSIVE UpdateLoop(_, _, _, _)
UpdateLoop(i, stop, terr, errs) ==
    IF i < stop THEN errs
    ELSE UpdateLoop(i - 1, stop, terr, UpdateStep(i, terr, errs))

\* Tile.update() on the zeroed Float32Array of the Tile constructor.
Update(terr) ==
    UpdateLoop(numTriangles - 1, 0, terr, ZeroArray(gridSize * gridSize))

\* ------------------------------------------------------ Tile.getMesh
\* const maxScale = maxLength || size
MaxScale(maxLength) ==
    IF maxLength = Null THEN gridSize
    ELSE IF maxLength[1] = 0 THEN gridSize
    ELSE maxLength[1]

\* Split stopping at legs of 2: the test legLength > 1 written as legLength > 2.
SplitCoarse(errs, maxError, maxScale, legLength, middleIndex) ==
    \/ legLength > 2 /\ errs[middleIndex] > maxError
    \/ legLength > maxScale

\* Split taking a negative maxError for 0.
SplitClamped(errs, maxError, maxScale, legLength, middleIndex) ==
    \/ legLength > 1 /\ errs[middleIndex] > Max(maxError, 0)
    \/ legLength > maxScale

\* Split with the comparison of the error turned round.
SplitBelow(errs, maxError, maxScale, legLength, middleIndex) ==
    \/ legLength > 1 /\ errs[middleIndex] < maxError
    \/ legLength > maxScale

\* The test both passes make: drill down, or emit the triangle.
Split(errs, maxError, maxScale, legLength, middleIndex) ==
    \/ legLength > 1 /\ errs[middleIndex] > maxError
    \/ legLength > maxScale

\* Fill leaving the buffer as the last call left it.
FillNothing(idx) == idx

\* indices.fill(0)
Fill(idx) == [k \in DOMAIN idx |-> 0]

\* AssignIndex giving a new index to a vertex that has one.
AssignIndexAlways(st, p) ==
    [st EXCEPT !.numVertices = @ + 1, !.indices[p] = st.numVertices + 1]

\* indices[p] = indices[p] || ++numVertices
AssignIndex(st, p) ==
    IF st.indices[p] # 0 THEN st
    ELSE [st EXCEPT !.numVertices = @ + 1, !.indices[p] = st.numVertices + 1]

\* The else branch of countElements: index the three vertices, count the
\* triangle.  depth records the splits above the deepest triangle emitted.
CountTriangle(st, d, ax, ay, bx, by, cx, cy) ==
    [AssignIndex(AssignIndex(AssignIndex(st, ay * gridSize + ax),
                             by * gridSize + bx),
                 cy * gridSize + cx)
        EXCEPT !.numTriangles = @ + 1, !.depth = Max(@, d - 1)]

\* The recursion of pass 1.  d is the depth of the call; a call deeper than the
\* engine's stack throws, and nothing after a throw runs.
RECURSIVE countElements(_, _, _, _, _, _, _, _, _, _, _)
countElements(errs, maxError, maxScale, st, d, ax, ay, bx, by, cx, cy) ==
    IF st.thrown THEN st
    ELSE IF d > MaxStack THEN [st EXCEPT !.thrown = TRUE]
    ELSE
        LET mx == (ax + bx) \div 2
            my == (ay + by) \div 2
            legLength == Abs(ax - cx) + Abs(ay - cy)
        IN  IF Split(errs, maxError, maxScale, legLength, my * gridSize + mx)
            THEN countElements(errs, maxError, maxScale,
                     countElements(errs, maxError, maxScale, st, d + 1,
                                   cx, cy, ax, ay, mx, my),
                     d + 1, bx, by, cx, cy, mx, my)
            ELSE CountTriangle(st, d, ax, ay, bx, by, cx, cy)

\* A store into a typed array: an index outside it is ignored.
Store(arr, k, v) == IF k \in DOMAIN arr THEN [arr EXCEPT ![k] = v] ELSE arr

\* The else branch of processTriangle ("add a triangle").  emitted records the
\* coordinates the branch was called with.
AddTriangle(idx, st, ax, ay, bx, by, cx, cy) ==
    LET a == idx[ay * gridSize + ax] - 1
        b == idx[by * gridSize + bx] - 1
        c == idx[cy * gridSize + cx] - 1
        t == st.triIndex
    IN  [st EXCEPT
            !.vertices = Store(Store(Store(Store(Store(Store(@,
                             2 * a, ax), 2 * a + 1, ay),
                             2 * b, bx), 2 * b + 1, by),
                             2 * c, cx), 2 * c + 1, cy),
            !.triangles = Store(Store(Store(@, t, a), t + 1, b), t + 2, c),
            !.triIndex = t + 3,
            !.emitted = Append(@, <<ax, ay, bx, by, cx, cy>>)]

\* The recursion of pass 2.
RECURSIVE processTriangle(_, _, _, _, _, _, _, _, _, _, _, _)
processTriangle(errs, idx, maxError, maxScale, st, d, ax, ay, bx, by, cx, cy) ==
    IF st.thrown THEN st
    ELSE IF d > MaxStack THEN [st EXCEPT !.thrown = TRUE]
    ELSE
        LET mx == (ax + bx) \div 2
            my == (ay + by) \div 2
            legLength == Abs(ax - cx) + Abs(ay - cy)
        IN  IF Split(errs, maxError, maxScale, legLength, my * gridSize + mx)
            THEN processTriangle(errs, idx, maxError, maxScale,
                     processTriangle(errs, idx, maxError, maxScale, st, d + 1,
                                     cx, cy, ax, ay, mx, my),
                     d + 1, bx, by, cx, cy, mx, my)
            ELSE AddTriangle(idx, st, ax, ay, bx, by, cx, cy)

\* Pass 1: zero the scratch buffer idx, then count from the two roots.
CountPass(errs, idx, maxError, maxScale) ==
    countElements(errs, maxError, maxScale,
        countElements(errs, maxError, maxScale,
            [indices |-> Fill(idx), numVertices |-> 0, numTriangles |-> 0,
             depth |-> 0, thrown |-> FALSE],
            1, 0, 0, gridSize - 1, gridSize - 1, gridSize - 1, 0),
        1, gridSize - 1, gridSize - 1, 0, 0, 0, gridSize - 1)

\* Pass 2: allocate the two buffers from the counts, then fill from the two roots.
FillPass(errs, counted, maxError, maxScale) ==
    processTriangle(errs, counted.indices, maxError, maxScale,
        processTriangle(errs, counted.indices, maxError, maxScale,
            [vertices |-> ZeroArray(counted.numVertices * 2),
             triangles |-> ZeroArray(counted.numTriangles * 3),
             triIndex |-> 0, emitted |-> <<>>, thrown |-> counted.thrown],
            1, 0, 0, gridSize - 1, gridSize - 1, gridSize - 1, 0),
        1, gridSize - 1, gridSize - 1, 0, 0, 0, gridSize - 1)

\* What a call leaves: whether it threw, the scratch buffer, and the returned
\* {vertices, triangles} with the locals of the call.
MeshResult(counted, filled) ==
    [thrown |-> filled.thrown,
     indices |-> counted.indices,
     mesh |-> [vertices |-> filled.vertices, triangles |-> filled.triangles,
               numVertices |-> counted.numVertices,
               numTriangles |-> counted.numTriangles,
               triIndex |-> filled.triIndex, depth |-> counted.depth,
               emitted |-> filled.emitted]]

\* The second half of getMesh, given what pass 1 counted.
AfterCount(errs, counted, maxError, maxScale) ==
    MeshResult(counted, FillPass(errs, counted, maxError, maxScale))

\* getMesh(maxError, maxLength) on a Tile with error field errs, the grid's
\* scratch buffer holding idx.
GetMesh(errs, idx, maxError, maxLength) ==
    AfterCount(errs, CountPass(errs, idx, maxError, MaxScale(maxLength)),
               maxError, MaxScale(maxLength))

\* ------------------------------------------------------------ inputs
GridSizes == 0..MaxGridSize

Heights == {2 * h : h \in 0..MaxHeight}

\* The height of the lowest raised sample.
Steps == {0, 2}

\* Terrains of n samples that are flat but for at most two samples: one raised
\* to any height, one by a step.
Terrains(n) ==
    {[k \in 0..(n - 1) |-> IF k = p THEN g ELSE IF k = q THEN h ELSE 0] :
        p \in 0..(n - 1), q \in 0..(n - 1), g \in Heights, h \in Steps}

\* Terrains of n samples that are flat but for at most one sample, raised by a
\* step.
OnePeakTerrains(n) ==
    {[k \in 0..(n - 1) |-> IF k = q THEN h ELSE 0] : q \in 0..(n - 1), h \in Steps}

\* A terrain of the wrong length for a grid of n samples.
WrongTerrain(n) == ZeroArray(n + 1)

MaxErrors == -1..MaxError

MaxLengths == {Null} \cup {Given(l) : l \in -1..MaxLength}

\* ----------------------------------------------------------- actions
Init ==
    /\ status = "none"
    /\ error = NoError
    /\ gridSize = 0
    /\ numTriangles = 0
    /\ numParentTriangles = 0
    /\ coords = <<>>
    /\ indices = <<>>
    /\ terrain = <<>>
    /\ errors = <<>>
    /\ call = NoCall
    /\ mesh = NoMesh

\* new Martini(size)
NewMartini(size) ==
    /\ status = "none"
    /\ gridSize' = size
    /\ IF GridSizeRejected(size)
       THEN /\ status' = "failed"
            /\ error' = [name |-> "InvalidGridSize", value |-> size]
            /\ UNCHANGED <<numTriangles, numParentTriangles, coords, indices>>
       ELSE /\ numTriangles' = NumTriangles(size)
            /\ numParentTriangles' = NumParentTriangles(size)
            /\ indices' = ZeroArray(size * size)
            /\ IF NumTriangles(size) * 4 < 0
               THEN /\ status' = "failed"
                    /\ error' = [name |-> "RangeError", value |-> NumTriangles(size) * 4]
                    /\ UNCHANGED coords
               ELSE /\ status' = "grid"
                    /\ coords' = CoordsTable(size)
                    /\ UNCHANGED error
    /\ UNCHANGED <<terrain, errors, call, mesh>>

\* martini.createTile(terr): new Tile(terr, martini).  The Tile made replaces
\* the one the model follows; the grid and its scratch buffer stay.
CreateTile(terr) ==
    /\ status \in {"grid", "tile", "mesh", "threw"}
    /\ IF Length(terr) # gridSize * gridSize
       THEN /\ error' = [name |-> "TerrainSizeMismatch", value |-> Length(terr)]
            /\ UNCHANGED <<status, terrain, errors, call, mesh>>
       ELSE /\ status' = "tile"
            /\ error' = NoError
            /\ terrain' = terr
            /\ errors' = Update(terr)
            /\ call' = NoCall
            /\ mesh' = NoMesh
    /\ UNCHANGED <<gridSize, numTriangles, numParentTriangles, coords, indices>>

\* The end of a getMesh call that computed r.
Return(r, maxError, maxLength) ==
    /\ indices' = r.indices
    /\ call' = [maxError |-> maxError, maxLength |-> maxLength,
                dirty |-> indices # Fill(indices)]
    /\ IF r.thrown
       THEN /\ status' = "threw"
            /\ error' = [name |-> "RangeError", value |-> 0]
            /\ mesh' = NoMesh
       ELSE /\ status' = "mesh"
            /\ error' = NoError
            /\ mesh' = r.mesh

\* tile.getMesh(maxError, maxLength)
GetMeshCall(maxError, maxLength) ==
    /\ status \in {"tile", "mesh", "threw"}
    /\ Return(GetMesh(errors, indices, maxError, maxLength), maxError, maxLength)
    /\ UNCHANGED <<gridSize, numTriangles, numParentTriangles, coords, terrain, errors>>

\* One grid, one Tile on it, one mesh asked of the Tile: every terrain of
\* Terrains, every argument.
Next ==
    \/ /\ status = "none"
       /\ \E size \in GridSizes : NewMartini(size)
    \/ /\ status = "grid"
       /\ error = NoError
       /\ \E terr \in Terrains(gridSize * gridSize) \cup {WrongTerrain(gridSize * gridSize)} :
             CreateTile(terr)
    \/ /\ status = "tile"
       /\ \E maxError \in MaxErrors, maxLength \in MaxLengths :
             GetMeshCall(maxError, maxLength)

Spec == Init /\ [][Next]_vars

\* Any sequence of meshes asked of a Tile and of further Tiles made on the same
\* grid once a mesh was asked, on the terrains of OnePeakTerrains.
NextCalls ==
    \/ /\ status = "none"
       /\ \E size \in GridSizes : NewMartini(size)
    \/ /\ status \in {"grid", "mesh", "threw"}
       /\ \E terr \in OnePeakTerrains(gridSize * gridSize) : CreateTile(terr)
    \/ /\ status \in {"tile", "mesh", "threw"}
       /\ \E maxError \in MaxErrors, maxLength \in MaxLengths :
             GetMeshCall(maxError, maxLength)

SpecCalls == Init /\ [][NextCalls]_vars

\* ------------------------------------------------------------ claims
TileSize == gridSize - 1

HasTile == status \in {"tile", "mesh", "threw"}

Pixels == 0..(gridSize * gridSize - 1)

PixelX(p) == p % gridSize

PixelY(p) == p \div gridSize

IsEdgePixel(p) ==
    \/ PixelX(p) = 0 \/ PixelX(p) = TileSize
    \/ PixelY(p) = 0 \/ PixelY(p) = TileSize

IsCornerPixel(p) ==
    /\ PixelX(p) \in {0, TileSize}
    /\ PixelY(p) \in {0, TileSize}

RECURSIVE IsPowerOfTwo(_)
IsPowerOfTwo(n) ==
    /\ n >= 1
    /\ \/ n = 1
       \/ n % 2 = 0 /\ IsPowerOfTwo(n \div 2)

RECURSIVE Log2(_)
Log2(n) == IF n <= 1 THEN 0 ELSE 1 + Log2(n \div 2)

\* C3 as stated: after Tile construction every pixel on one of the four edges
\* of the tile has errors = 0.
EdgeErrorsZero ==
    HasTile => \A p \in Pixels : IsEdgePixel(p) => errors[p] = 0

\* C3 amended: after Tile construction each of the four corner pixels has
\* errors = 0 (a pixel inside an edge is the midpoint of a hypotenuse lying on
\* that edge, and holds that triangle's error).
CornerErrorsZero ==
    HasTile => \A p \in Pixels : IsCornerPixel(p) => errors[p] = 0

\* A Tile whose terrain is raised at a corner: the pixels inside the edges that
\* leave the corner hold an error, the corners none.
CornerErrorsWitness ==
    /\ status = "tile"
    /\ TileSize >= 2
    /\ terrain[0] > 0
    /\ errors[1] > 0
    /\ \A p \in Pixels : IsCornerPixel(p) => errors[p] = 0

\* C6 as stated: construction fails with InvalidGridSize, reporting the size,
\* whenever size - 1 is not a positive power of two, and otherwise succeeds,
\* building numTriangles and the coords table.
GridSizeValidated ==
    status # "none" =>
        IF IsPowerOfTwo(gridSize - 1)
        THEN /\ status # "failed"
             /\ numTriangles = 2 * TileSize * TileSize - 2
             /\ Length(coords) = 4 * numTriangles
        ELSE /\ status = "failed"
             /\ error = [name |-> "InvalidGridSize", value |-> gridSize]

\* C9 as stated: whatever maxError and maxLength are, both passes of getMesh
\* end, and no emitted triangle lies under more than 2 * log2(T) splits.
ExtractionTotal ==
    status \in {"mesh", "threw"} =>
        /\ status = "mesh"
        /\ mesh.depth <= 2 * Log2(TileSize)

\* The hypotenuse midpoint, the apex and the children's hypotenuse midpoints of
\* triangle i of the coords table, as update computes them.
MiddleIndexOf(i) ==
    ((coords[4 * i + 1] + coords[4 * i + 3]) \div 2) * gridSize
        + ((coords[4 * i] + coords[4 * i + 2]) \div 2)

ApexX(i) ==
    (coords[4 * i] + coords[4 * i + 2]) \div 2
        + (coords[4 * i + 1] + coords[4 * i + 3]) \div 2 - coords[4 * i + 1]

ApexY(i) ==
    (coords[4 * i + 1] + coords[4 * i + 3]) \div 2
        + coords[4 * i] - (coords[4 * i] + coords[4 * i + 2]) \div 2

LeftChildIndexOf(i) ==
    ((coords[4 * i + 1] + ApexY(i)) \div 2) * gridSize
        + ((coords[4 * i] + ApexX(i)) \div 2)

RightChildIndexOf(i) ==
    ((coords[4 * i + 3] + ApexY(i)) \div 2) * gridSize
        + ((coords[4 * i + 2] + ApexX(i)) \div 2)

\* Whether the two child errors triangle i reads in the error field errs are
\* the final ones.
ReadsFinal(i, errs) ==
    /\ errs[LeftChildIndexOf(i)] = errors[LeftChildIndexOf(i)]
    /\ errs[RightChildIndexOf(i)] = errors[RightChildIndexOf(i)]

\* The error field as the sweep finds it when it comes to triangle i.
ErrorsBefore(i) ==
    UpdateLoop(numTriangles - 1, i + 1, terrain, ZeroArray(gridSize * gridSize))

\* C10: after Tile construction errors is nowhere negative, the error at the
\* hypotenuse midpoint of every internal triangle of the coords table is at
\* least the error at each child's hypotenuse midpoint, and when the sweep
\* comes to a triangle the two child errors it reads are already final.
ErrorsMonotone ==
    HasTile =>
        /\ \A p \in Pixels : errors[p] >= 0
        /\ \A i \in 0..(numParentTriangles - 1) :
              /\ errors[MiddleIndexOf(i)] >= errors[LeftChildIndexOf(i)]
              /\ errors[MiddleIndexOf(i)] >= errors[RightChildIndexOf(i)]
        /\ status = "tile" =>
              \A i \in 0..(numParentTriangles - 1) : ReadsFinal(i, ErrorsBefore(i))

\* A Tile on the 5 x 5 grid where an error found at the deepest level has
\* reached the roots' midpoint.
ErrorsMonotoneWitness ==
    /\ status = "tile"
    /\ gridSize = 5
    /\ terrain[1] > 0
    /\ terrain[12] = 0
    /\ errors[1] > 0
    /\ errors[12] >= errors[1]

\* ---- the returned mesh, read from its two buffers
VertexCount(m) == Length(m.vertices) \div 2

TriangleCount(m) == Length(m.triangles) \div 3

\* The grid point of vertex v of mesh m.
VertexX(m, v) == m.vertices[2 * v]

VertexY(m, v) == m.vertices[2 * v + 1]

VertexPixel(m, v) == VertexY(m, v) * gridSize + VertexX(m, v)

VertexSet(m) == {VertexPixel(m, v) : v \in 0..(VertexCount(m) - 1)}

\* Corner j (0, 1 or 2) of triangle t of mesh m, as a vertex index.
Corner(m, t, j) == m.triangles[3 * t + j]

LengthGiven == call.maxLength # Null

RECURSIVE GCD(_, _)
GCD(x, y) == IF y = 0 THEN x ELSE GCD(y, x % y)

\* The grid points that lie on the segment between the pixels u and v and are
\* neither end of it: the steps from u to v in the smallest whole direction.
StrictlyInside(u, v) ==
    LET dx == PixelX(v) - PixelX(u)
        dy == PixelY(v) - PixelY(u)
        g == GCD(Abs(dx), Abs(dy))
    IN  {(PixelY(u) + k * (dy \div g)) * gridSize + PixelX(u) + k * (dx \div g) :
            k \in 1..(g - 1)}

\* No grid point strictly inside an edge of a triangle of m is among the
\* vertices vs.
NoVertexInsideEdge(m, vs) ==
    \A t \in 0..(TriangleCount(m) - 1), j \in 0..2 :
        StrictlyInside(VertexPixel(m, Corner(m, t, j)),
                       VertexPixel(m, Corner(m, t, (j + 1) % 3))) \cap vs = {}

\* C1: with maxLength absent or at least 1, no vertex of the returned mesh lies
\* strictly inside an edge of one of its triangles.  (Vertices are grid points;
\* and two edges that overlap along a stretch and are not the same edge have an
\* end of one strictly inside the other, so triangles that meet along a grid
\* edge then share all of it.)
CrackFree ==
    (status = "mesh" /\ (~LengthGiven \/ call.maxLength[1] >= 1)) =>
        NoVertexInsideEdge(mesh, VertexSet(mesh))

\* A mesh of the 5 x 5 grid that maxLength = 2 forced down to legs of 2 and the
\* errors refined further in places only.
CrackFreeWitness ==
    /\ status = "mesh"
    /\ gridSize = 5
    /\ call.maxLength = Given(2)
    /\ TriangleCount(mesh) > 8
    /\ TriangleCount(mesh) < 32

\* Twice the signed area of the triangle (p, q, r).
Area2(px, py, qx, qy, rx, ry) == (qx - px) * (ry - py) - (rx - px) * (qy - py)

\* Whether the sample at pixel p, if it lies inside or on the triangle whose
\* corners are the pixels a, b, c, is within tol of the height interpolated
\* linearly from the three corners (all three weights times the area, so that
\* no division is made).
SampleWithin(p, a, b, c, tol) ==
    LET area == Area2(PixelX(a), PixelY(a), PixelX(b), PixelY(b), PixelX(c), PixelY(c))
        wa == Area2(PixelX(p), PixelY(p), PixelX(b), PixelY(b), PixelX(c), PixelY(c))
        wb == Area2(PixelX(p), PixelY(p), PixelX(c), PixelY(c), PixelX(a), PixelY(a))
        wc == Area2(PixelX(p), PixelY(p), PixelX(a), PixelY(a), PixelX(b), PixelY(b))
    IN  (wa * area >= 0 /\ wb * area >= 0 /\ wc * area >= 0) =>
            Abs(area * terrain[p]
                - (wa * terrain[a] + wb * terrain[b] + wc * terrain[c]))
                <= tol * Abs(area)

TriangleWithin(m, t, tol) ==
    \A p \in Pixels :
        SampleWithin(p, VertexPixel(m, Corner(m, t, 0)),
                     VertexPixel(m, Corner(m, t, 1)),
                     VertexPixel(m, Corner(m, t, 2)), tol)

\* C2 as stated: with maxError >= 0 and no maxLength, at every grid sample
\* inside or on a returned triangle the terrain differs from the height
\* interpolated from the triangle's three corners by at most maxError.
WithinTolerance ==
    (status = "mesh" /\ ~LengthGiven /\ call.maxError >= 0) =>
        \A t \in 0..(TriangleCount(mesh) - 1) :
            TriangleWithin(mesh, t, call.maxError)

\* Whether the sample midway between the pixels u and v, if that is a grid
\* point, is within tol of the mean of the samples at u and v.
MidpointWithin(u, v, tol) ==
    ((PixelX(u) + PixelX(v)) % 2 = 0 /\ (PixelY(u) + PixelY(v)) % 2 = 0) =>
        Abs(terrain[((PixelY(u) + PixelY(v)) \div 2) * gridSize
                    + (PixelX(u) + PixelX(v)) \div 2]
            - (terrain[u] + terrain[v]) \div 2) <= tol

\* C2 amended: with maxError >= 0 and no maxLength, at every grid sample that
\* is the midpoint of an edge of a returned triangle (its hypotenuse or a leg)
\* the terrain differs from the height interpolated along that edge by at most
\* maxError.  (Samples further inside are bounded level by level only, and the
\* deviations of several levels add up.)
EdgeMidpointsWithinTolerance ==
    (status = "mesh" /\ ~LengthGiven /\ call.maxError >= 0) =>
        \A t \in 0..(TriangleCount(mesh) - 1), j \in 0..2 :
            MidpointWithin(VertexPixel(mesh, Corner(mesh, t, j)),
                           VertexPixel(mesh, Corner(mesh, t, (j + 1) % 3)),
                           call.maxError)

\* A mesh of the 5 x 5 grid, coarser than full refinement, over a terrain that
\* is not flat, returned for a positive tolerance.
EdgeMidpointsWitness ==
    /\ status = "mesh"
    /\ gridSize = 5
    /\ ~LengthGiven
    /\ call.maxError > 0
    /\ errors[12] > 0
    /\ TriangleCount(mesh) < 32

FullyRefined ==
    /\ TriangleCount(mesh) = 2 * TileSize * TileSize
    /\ Length(mesh.triangles) = 3 * TriangleCount(mesh)
    /\ VertexCount(mesh) = (TileSize + 1) * (TileSize + 1)
    /\ Length(mesh.vertices) = 2 * VertexCount(mesh)

Flat == \A p \in Pixels : terrain[p] = terrain[0]

\* C4 as stated: with no maxLength, maxError < 0, or maxError = 0 on a terrain
\* that is not flat, returns all 2*T*T unit triangles and (T+1)*(T+1) vertices.
FullRefinement ==
    (status = "mesh" /\ ~LengthGiven
        /\ (call.maxError < 0 \/ (call.maxError = 0 /\ ~Flat))) =>
        FullyRefined

\* C4 amended: with no maxLength, maxError < 0, or any maxError that is below
\* the error at every pixel but the four corners, returns all 2*T*T unit
\* triangles and (T+1)*(T+1) vertices.
FullRefinementBelowErrors ==
    (status = "mesh" /\ ~LengthGiven
        /\ (call.maxError < 0
            \/ \A p \in Pixels : ~IsCornerPixel(p) => errors[p] > call.maxError)) =>
        FullyRefined

\* A full mesh returned for maxError = 0 on a grid with pixels inside it.
FullRefinementWitness ==
    /\ status = "mesh"
    /\ ~LengthGiven
    /\ call.maxError = 0
    /\ TileSize >= 2
    /\ \A p \in Pixels : ~IsCornerPixel(p) => errors[p] > 0
    /\ FullyRefined

\* C7: the returned buffers are a dense indexed mesh.  Every entry of triangles
\* is a vertex index, every vertex index is used, no two vertices are the same
\* grid point, pass 2 wrote exactly the triangles pass 1 counted, and each
\* triple of triangles names the corners the triangle was emitted with.
WellFormedMesh ==
    status = "mesh" =>
        /\ Length(mesh.vertices) = 2 * mesh.numVertices
        /\ Length(mesh.triangles) = 3 * mesh.numTriangles
        /\ mesh.triIndex = Length(mesh.triangles)
        /\ Len(mesh.emitted) = mesh.numTriangles
        /\ \A k \in DOMAIN mesh.triangles :
              mesh.triangles[k] \in 0..(mesh.numVertices - 1)
        /\ \A v \in 0..(mesh.numVertices - 1) :
              \E k \in DOMAIN mesh.triangles : mesh.triangles[k] = v
        /\ Cardinality(VertexSet(mesh)) = mesh.numVertices
        /\ \A t \in 0..(mesh.numTriangles - 1), j \in 0..2 :
              /\ VertexX(mesh, Corner(mesh, t, j)) = mesh.emitted[t + 1][2 * j + 1]
              /\ VertexY(mesh, Corner(mesh, t, j)) = mesh.emitted[t + 1][2 * j + 2]

\* A mesh of the 5 x 5 grid refined in places only, so that vertices are shared
\* between triangles of different sizes.
WellFormedWitness ==
    /\ status = "mesh"
    /\ gridSize = 5
    /\ mesh.numTriangles > 2
    /\ mesh.numTriangles < 32
    /\ mesh.numVertices < 3 * mesh.numTriangles

\* Whether the call that computed r returned a mesh no finer than the last one.
NoFiner(r) ==
    /\ ~r.thrown
    /\ TriangleCount(r.mesh) <= TriangleCount(mesh)
    /\ VertexSet(r.mesh) \subseteq VertexSet(mesh)

\* C8: on one Tile and with one maxLength, a larger maxError returns no more
\* triangles, and every vertex it returns is a vertex returned for the smaller.
\* The last call is compared with the call for the next larger maxError; over
\* the whole numbers of MaxErrors every pair e1 <= e2 follows from the steps
\* between them.
MonotoneInMaxError ==
    (status = "mesh" /\ call.maxError + 1 \in MaxErrors) =>
        NoFiner(GetMesh(errors, indices, call.maxError + 1, call.maxLength))

\* Whether the call that computed r returned a mesh strictly coarser than the
\* last one, yet finer than the two roots.
StrictlyCoarser(r) ==
    /\ ~r.thrown
    /\ TriangleCount(r.mesh) < TriangleCount(mesh)
    /\ TriangleCount(r.mesh) > 2

\* A mesh on the 5 x 5 grid that the next larger maxError makes strictly
\* coarser without reducing it to the two roots.
MonotoneWitness ==
    /\ status = "mesh"
    /\ gridSize = 5
    /\ call.maxError = 0
    /\ StrictlyCoarser(GetMesh(errors, indices, 1, call.maxLength))

\* Whether the call that computed r on a new grid agrees with the last call.
SameAsFresh(r) ==
    IF r.thrown THEN status = "threw"
    ELSE /\ status = "mesh"
         /\ mesh.vertices = r.mesh.vertices
         /\ mesh.triangles = r.mesh.triangles

\* C5: whatever calls were made before on Tiles of the same grid, a call
\* returns the buffers the same call returns on a new grid and a new Tile of
\* the same terrain (so two equal calls on a Tile return equal buffers).
NoCrossCallState ==
    status \in {"mesh", "threw"} =>
        SameAsFresh(GetMesh(Update(terrain), ZeroArray(gridSize * gridSize),
                            call.maxError, call.maxLength))

\* A mesh returned by a call that found an earlier call's indices in the
\* scratch buffer.
NoCrossCallWitness ==
    /\ status = "mesh"
    /\ call.dirty
    /\ gridSize = 5
    /\ mesh.numTriangles > 2

====
